---- MODULE Spec2Model ----
(***************************************************************************)
(* ecw: a thin wrapper over CMake with two subcommands, "config" and       *)
(* "build".  Two entry points exist: ecw.py (mode, export-cc, quiet and    *)
(* reset options, exit status propagated) and main.py (the older, simpler  *)
(* one).  One behaviour of the model is one invocation of one entry point: *)
(* option parsing, the handler, call() (echo, spawn, wait, return) and the *)
(* process exit.  Paths are sequences of components; the filesystem is the *)
(* set of paths that exist as directories.                                 *)
(***************************************************************************)
EXTENDS Integers, Sequences, FiniteSets, TLC

VARIABLES
    pc,            \* position of the invocation
    prog,          \* entry point: "ecw" or "main"
    subcmd,        \* "config" or "build"
    source_dir,    \* resolved -S path
    build_dir,     \* resolved -B path
    modeOpt,       \* -M as typed on the command line (None: not typed)
    mode,          \* the handler's mode parameter
    export_cc,     \* -E
    quiet,         \* -q
    reset,         \* -R
    cmake_params,  \* passthrough parameters
    target,        \* build target
    fs,            \* directories that exist
    fs0,           \* directories that existed when the invocation started
    removed,       \* directories deleted by the invocation
    command,       \* the assembled command
    stdout,        \* lines echoed on the output stream
    stderr,        \* lines echoed on the error stream
    spawns,        \* child processes spawned, in order
    result,        \* exit status of the child (None: no child has exited)
    exitCode       \* exit code of the invocation (None: still running)

vars == <<pc, prog, subcmd, source_dir, build_dir, modeOpt, mode, export_cc,
          quiet, reset, cmake_params, target, fs, fs0, removed, command,
          stdout, stderr, spawns, result, exitCode>>

None == "None"

----------------------------------------------------------------------------
(* Bounds and input universes *)

MaxParams == 2

MaxStatus == 2

Dirs ==
    { <<"repo">>, <<"repo", "src">>, <<"repo", "build">>,
      <<"repo", "build", "old">> }

ParamTokens == { "-GNinja", "-DCMAKE_BUILD_TYPE=Release" }

Targets == { "all", "mytarget", "install" }

ParamLists == UNION { [1..n -> ParamTokens] : n \in 0..MaxParams }

IsPrefixOrEqual(a, b) ==
    /\ Len(a) <= Len(b)
    /\ \A i \in 1..Len(a) : a[i] = b[i]

IsProperPrefix(a, b) == Len(a) < Len(b) /\ IsPrefixOrEqual(a, b)

\* A filesystem holds the parents of every directory it holds.
FileSystems ==
    { f \in SUBSET Dirs :
        \A p \in f : \A q \in Dirs : IsProperPrefix(q, p) => q \in f }

----------------------------------------------------------------------------
(* ecw.py: BuildMode *)

debug == "d"

release == "r"

release_with_debug == "w"

min_size_release == "s"

BuildMode == { debug, release, release_with_debug, min_size_release }

to_param_release_as_debug(self) ==
    IF self = release_with_debug THEN "RelWithDebInfo"
    ELSE IF self = min_size_release THEN "MinSizeRel"
    ELSE "Debug"

to_param(self) ==
    IF self = release THEN "Release"
    ELSE IF self = release_with_debug THEN "RelWithDebInfo"
    ELSE IF self = min_size_release THEN "MinSizeRel"
    ELSE "Debug"

DefaultModeNone == None

DefaultMode == debug

\* Value of the mode parameter for what was typed after -M, if anything.
ParseMode(opt) == IF opt = None THEN DefaultMode ELSE opt

\* Python truth value of an Optional[BuildMode] (a str enum).
Truthy(m) == m # None /\ m # ""

----------------------------------------------------------------------------
(* Paths and strings *)

RECURSIVE Join(_, _)
\* sep.join(tokens)
Join(tokens, sep) ==
    IF tokens = <<>> THEN ""
    ELSE IF Len(tokens) = 1 THEN tokens[1]
    ELSE tokens[1] \o sep \o Join(Tail(tokens), sep)

\* str() of an absolute Path
PathStr(p) == "/" \o Join(p, "/")

\* Path.parents: the logical ancestors, from the immediate parent to the root
Parents(p) == [i \in 1..Len(p) |-> SubSeq(p, 1, Len(p) - i)]

InParentsSwapped(b, s) == \E i \in 1..Len(b) : Parents(b)[i] = s

\* b in s.parents
InParents(b, s) == \E i \in 1..Len(s) : Parents(s)[i] = b

\* os.path.isdir
isdir(f, p) == p \in f

\* directories shutil.rmtree(p) deletes from filesystem f
rmtree_top_only(f, p) == { q \in f : q = p }

rmtree(f, p) == { q \in f : IsPrefixOrEqual(p, q) }

----------------------------------------------------------------------------
(* Command assembly *)

UnsafeResetMsg == "Error: Build root contains source root; cannot remove."

ecw_config_command_params_first(src, bld, m, ecc, params) ==
    <<"cmake", "-S", PathStr(src), "-B", PathStr(bld)>>
        \o (IF Truthy(m) THEN <<"-DCMAKE_BUILD_TYPE=" \o to_param(m)>> ELSE <<>>)
        \o (IF params # <<>> THEN params ELSE <<>>)
        \o (IF ecc THEN <<"-DCMAKE_EXPORT_COMPILE_COMMANDS=1">> ELSE <<>>)

ecw_config_command(src, bld, m, ecc, params) ==
    <<"cmake", "-S", PathStr(src), "-B", PathStr(bld)>>
        \o (IF Truthy(m) THEN <<"-DCMAKE_BUILD_TYPE=" \o to_param(m)>> ELSE <<>>)
        \o (IF ecc THEN <<"-DCMAKE_EXPORT_COMPILE_COMMANDS=1">> ELSE <<>>)
        \o (IF params # <<>> THEN params ELSE <<>>)

main_config_command(src, bld, params) ==
    <<"cmake", "-S", PathStr(src), "-B", PathStr(bld)>>
        \o (IF params # <<>> THEN params ELSE <<>>)

ecw_build_command_always_target(tgt, bld) ==
    <<"cmake", "--build", PathStr(bld)>> \o <<"-t", tgt>>

ecw_build_command(tgt, bld) ==
    <<"cmake", "--build", PathStr(bld)>>
        \o (IF tgt # "all" THEN <<"-t", tgt>> ELSE <<>>)

main_build_command(tgt, bld) ==
    <<"cmake", "--build", PathStr(bld)>>
        \o (IF tgt # "all" THEN <<"-t", tgt>> ELSE <<>>)

ecw_echo_no_separator(cmd) == "> " \o Join(cmd, "")

ecw_echo(cmd) == "> " \o Join(cmd, " ")

main_echo(cmd) == "> " \o Join(cmd, " ")

\* stdout of the child: os.devnull when quiet
ecw_child_stdout(q) == IF q THEN "devnull" ELSE "inherit"

----------------------------------------------------------------------------
(* The invocation *)

Init ==
    /\ pc = "idle"
    /\ prog = None
    /\ subcmd = None
    /\ source_dir = <<>>
    /\ build_dir = <<>>
    /\ modeOpt = None
    /\ mode = None
    /\ export_cc = FALSE
    /\ quiet = FALSE
    /\ reset = FALSE
    /\ cmake_params = <<>>
    /\ target = "all"
    /\ fs \in FileSystems
    /\ fs0 = fs
    /\ removed = {}
    /\ command = <<>>
    /\ stdout = <<>>
    /\ stderr = <<>>
    /\ spawns = <<>>
    /\ result = None
    /\ exitCode = None

Untouched ==
    UNCHANGED <<fs, fs0, removed, command, stdout, stderr, spawns, result,
                exitCode>>

\* ecw.py config: the options as parsed from the command line
InvokeEcwConfig ==
    /\ pc = "idle"
    /\ \E s \in Dirs, b \in Dirs, mo \in BuildMode \cup {None},
          e \in BOOLEAN, q \in BOOLEAN, r \in BOOLEAN, ps \in ParamLists :
        /\ source_dir' = s
        /\ build_dir' = b
        /\ modeOpt' = mo
        /\ mode' = ParseMode(mo)
        /\ export_cc' = e
        /\ quiet' = q
        /\ reset' = r
        /\ cmake_params' = ps
    /\ prog' = "ecw"
    /\ subcmd' = "config"
    /\ pc' = "parsed"
    /\ UNCHANGED target
    /\ Untouched

\* main.py config
InvokeMainConfig ==
    /\ pc = "idle"
    /\ \E s \in Dirs, b \in Dirs, ps \in ParamLists :
        /\ source_dir' = s
        /\ build_dir' = b
        /\ cmake_params' = ps
    /\ prog' = "main"
    /\ subcmd' = "config"
    /\ pc' = "parsed"
    /\ UNCHANGED <<modeOpt, mode, export_cc, quiet, reset, target>>
    /\ Untouched

\* ecw.py build
InvokeEcwBuild ==
    /\ pc = "idle"
    /\ \E t \in Targets, b \in Dirs :
        /\ target' = t
        /\ build_dir' = b
    /\ prog' = "ecw"
    /\ subcmd' = "build"
    /\ pc' = "parsed"
    /\ UNCHANGED <<source_dir, modeOpt, mode, export_cc, quiet, reset,
                   cmake_params>>
    /\ Untouched

\* main.py build
InvokeMainBuild ==
    /\ pc = "idle"
    /\ \E t \in Targets, b \in Dirs :
        /\ target' = t
        /\ build_dir' = b
    /\ prog' = "main"
    /\ subcmd' = "build"
    /\ pc' = "parsed"
    /\ UNCHANGED <<source_dir, modeOpt, mode, export_cc, quiet, reset,
                   cmake_params>>
    /\ Untouched

Args ==
    <<prog, subcmd, source_dir, build_dir, modeOpt, mode, export_cc, quiet,
      reset, cmake_params, target>>

UsageExit == 2

\* --source-dir is declared exists=True: a missing source root is rejected
\* before the handler runs.
SourceDirInvalid ==
    /\ pc = "parsed"
    /\ subcmd = "config"
    /\ ~isdir(fs, source_dir)
    /\ stderr' = Append(stderr, "Error: Invalid value for '--source-dir'")
    /\ exitCode' = UsageExit
    /\ pc' = "done"
    /\ UNCHANGED <<Args, fs, fs0, removed, command, stdout, spawns, result>>

\* ecw.py config(), up to its call of call()
EcwConfig ==
    /\ pc = "parsed"
    /\ prog = "ecw"
    /\ subcmd = "config"
    /\ isdir(fs, source_dir)
    /\ IF reset /\ InParents(build_dir, source_dir)
       THEN /\ stderr' = Append(stderr, UnsafeResetMsg)
            /\ pc' = "returned"
            /\ UNCHANGED <<fs, removed, command>>
       ELSE /\ IF reset /\ isdir(fs, build_dir)
               THEN /\ fs' = fs \ rmtree(fs, build_dir)
                    /\ removed' = removed \cup rmtree(fs, build_dir)
               ELSE UNCHANGED <<fs, removed>>
            /\ command' = ecw_config_command(source_dir, build_dir, mode,
                                             export_cc, cmake_params)
            /\ pc' = "echo"
            /\ UNCHANGED stderr
    /\ UNCHANGED <<Args, fs0, stdout, spawns, result, exitCode>>

\* main.py config(), up to its call of call()
MainConfig ==
    /\ pc = "parsed"
    /\ prog = "main"
    /\ subcmd = "config"
    /\ isdir(fs, source_dir)
    /\ command' = main_config_command(source_dir, build_dir, cmake_params)
    /\ pc' = "echo"
    /\ UNCHANGED <<Args, fs, fs0, removed, stdout, stderr, spawns, result,
                   exitCode>>

\* ecw.py build(), up to its call of call()
EcwBuild ==
    /\ pc = "parsed"
    /\ prog = "ecw"
    /\ subcmd = "build"
    /\ command' = ecw_build_command(target, build_dir)
    /\ pc' = "echo"
    /\ UNCHANGED <<Args, fs, fs0, removed, stdout, stderr, spawns, result,
                   exitCode>>

\* main.py build(), up to its call of call()
MainBuild ==
    /\ pc = "parsed"
    /\ prog = "main"
    /\ subcmd = "build"
    /\ command' = main_build_command(target, build_dir)
    /\ pc' = "echo"
    /\ UNCHANGED <<Args, fs, fs0, removed, stdout, stderr, spawns, result,
                   exitCode>>

\* call(): typer.echo of the command
CallEcho ==
    /\ pc = "echo"
    /\ stdout' = Append(stdout, IF prog = "ecw" THEN ecw_echo(command)
                                ELSE main_echo(command))
    /\ pc' = "spawn"
    /\ UNCHANGED <<Args, fs, fs0, removed, command, stderr, spawns, result,
                   exitCode>>

\* call(): subprocess.call starts the child
CallSpawn ==
    /\ pc = "spawn"
    /\ spawns' = Append(spawns,
                        [argv |-> command,
                         stdout |-> IF prog = "ecw" THEN ecw_child_stdout(quiet)
                                    ELSE "inherit"])
    /\ pc' = "wait"
    /\ UNCHANGED <<Args, fs, fs0, removed, command, stdout, stderr, result,
                   exitCode>>

\* call(): subprocess.call returns the child's exit status
ChildExit ==
    /\ pc = "wait"
    /\ \E s \in 0..MaxStatus : result' = s
    /\ pc' = "check"
    /\ UNCHANGED <<Args, fs, fs0, removed, command, stdout, stderr, spawns,
                   exitCode>>

\* ecw.py call(): raise typer.Exit(result) on a non-zero status
EcwCallReturn ==
    /\ pc = "check"
    /\ prog = "ecw"
    /\ IF result # 0
       THEN exitCode' = result /\ pc' = "done"
       ELSE pc' = "returned" /\ UNCHANGED exitCode
    /\ UNCHANGED <<Args, fs, fs0, removed, command, stdout, stderr, spawns,
                   result>>

\* main.py call(): the status is dropped
MainCallReturn ==
    /\ pc = "check"
    /\ prog = "main"
    /\ pc' = "returned"
    /\ UNCHANGED <<Args, fs, fs0, removed, command, stdout, stderr, spawns,
                   result, exitCode>>

\* app(): the handler returned, whatever it returned; the process exits 0
AppReturn ==
    /\ pc = "returned"
    /\ exitCode' = 0
    /\ pc' = "done"
    /\ UNCHANGED <<Args, fs, fs0, removed, command, stdout, stderr, spawns,
                   result>>

Next ==
    \/ InvokeEcwConfig
    \/ InvokeMainConfig
    \/ InvokeEcwBuild
    \/ InvokeMainBuild
    \/ SourceDirInvalid
    \/ EcwConfig
    \/ MainConfig
    \/ EcwBuild
    \/ MainBuild
    \/ CallEcho
    \/ CallSpawn
    \/ ChildExit
    \/ EcwCallReturn
    \/ MainCallReturn
    \/ AppReturn

Spec == Init /\ [][Next]_vars

----------------------------------------------------------------------------
(* Vocabulary of the properties *)

Finished == pc = "done"

\* The handler has assembled its command.
Assembled == pc \in {"echo", "spawn", "wait", "check"} \/ spawns # <<>>

EcwConfigRan == prog = "ecw" /\ subcmd = "config" /\ isdir(fs0, source_dir)

\* Directory a is directory b or one of its ancestors.
Contains(a, b) == Len(a) <= Len(b) /\ SubSeq(b, 1, Len(a)) = a

\* The build path is a proper ancestor of the source path.
BuildContainsSource == build_dir # source_dir /\ Contains(build_dir, source_dir)

UnsafeReset == EcwConfigRan /\ reset /\ BuildContainsSource

BuildTypeValues == { "Debug", "Release", "RelWithDebInfo", "MinSizeRel" }

IsBuildTypeToken(t) == t \in { "-DCMAKE_BUILD_TYPE=" \o v : v \in BuildTypeValues }

BuildTypeCount(tokens) ==
    Cardinality({ i \in 1..Len(tokens) : IsBuildTypeToken(tokens[i]) })

\* The documented mapping of build modes.
ModeValue ==
    [m \in BuildMode |->
        CASE m = "d" -> "Debug"
          [] m = "r" -> "Release"
          [] m = "w" -> "RelWithDebInfo"
          [] m = "s" -> "MinSizeRel"]

\* The tokens of the command that configure synthesizes itself.
Synthesized == SubSeq(command, 1, Len(command) - Len(cmake_params))

RECURSIVE SpaceJoined(_)
SpaceJoined(tokens) ==
    IF Len(tokens) = 0 THEN ""
    ELSE IF Len(tokens) = 1 THEN tokens[1]
    ELSE SpaceJoined(SubSeq(tokens, 1, Len(tokens) - 1))
            \o " " \o tokens[Len(tokens)]

----------------------------------------------------------------------------
\* C1: when the build path is a proper ancestor of the source path, configure
\* with reset=true deletes nothing, never assembles or spawns a command, and
\* has reported the unsafe-reset error on the error stream by the time the
\* handler returns, whatever mode, export-cc, quiet and passthrough are.
C1_UnsafeResetIsHarmless ==
    UnsafeReset =>
        /\ fs = fs0
        /\ removed = {}
        /\ spawns = <<>>
        /\ command = <<>>
        /\ pc \in {"parsed", "returned", "done"}
        /\ pc \in {"returned", "done"} => stderr = <<UnsafeResetMsg>>

C1_Witness ==
    /\ UnsafeReset
    /\ Finished
    /\ stderr = <<UnsafeResetMsg>>
    /\ isdir(fs, build_dir)
    /\ quiet /\ export_cc /\ cmake_params # <<>> /\ modeOpt = release

\* C2: configure with reset=true and the build path an ancestor of the source
\* path ends with a non-zero exit code.
C2_UnsafeResetExitsNonZero ==
    (UnsafeReset /\ Finished) => exitCode # 0

\* C3: in both entry points, an invocation that spawned the child exits with
\* the child's status, and spawns the child at most once.
C3_ExitStatusPropagated ==
    /\ Len(spawns) <= 1
    /\ (Finished /\ spawns # <<>>) => exitCode = result

\* C3, for ecw.py alone, where it holds.
C3_EcwExitStatusPropagated ==
    /\ Len(spawns) <= 1
    /\ (Finished /\ spawns # <<>> /\ prog = "ecw") => exitCode = result

\* C4: when the build path is not an ancestor of the source path and exists
\* as a directory, configure with reset=true has removed the build directory
\* and everything under it by the time the command is assembled, hence before
\* the child is spawned.
C4_ResetRemovesBuildDirBeforeSpawn ==
    (EcwConfigRan /\ reset /\ ~BuildContainsSource /\ isdir(fs0, build_dir)
        /\ (Assembled \/ Finished))
    => /\ \A p \in fs0 : Contains(build_dir, p) => p \notin fs /\ p \in removed
       /\ \A p \in fs : ~Contains(build_dir, p)

C4_Witness ==
    /\ EcwConfigRan /\ reset /\ ~BuildContainsSource
    /\ build_dir # source_dir
    /\ Cardinality(removed) = 2
    /\ Len(spawns) = 1
    /\ pc = "wait"

\* C5 as stated: for every build mode, the whole command of configure holds
\* exactly one build-type token, the one mapped from the mode.
C5_ExactlyOneBuildTypeToken ==
    (EcwConfigRan /\ Assembled /\ modeOpt \in BuildMode)
    => /\ BuildTypeCount(command) = 1
       /\ \E i \in 1..Len(command) :
            command[i] = "-DCMAKE_BUILD_TYPE=" \o ModeValue[modeOpt]

\* C5 as amended: for every build mode, the tokens configure synthesizes
\* (the command without its passthrough suffix) hold exactly one build-type
\* token, the sixth token of the command, equal to "-DCMAKE_BUILD_TYPE="
\* followed by the mapped value; the whole command holds that token plus the
\* build-type tokens of the passthrough parameters.
C5_OneSynthesizedBuildTypeToken ==
    (EcwConfigRan /\ Assembled /\ modeOpt \in BuildMode)
    => /\ BuildTypeCount(Synthesized) = 1
       /\ Len(command) >= 6
       /\ command[6] = "-DCMAKE_BUILD_TYPE=" \o ModeValue[modeOpt]
       /\ BuildTypeCount(command) = 1 + BuildTypeCount(cmake_params)

C5_Witness ==
    /\ EcwConfigRan /\ Assembled
    /\ modeOpt = release
    /\ command[6] = "-DCMAKE_BUILD_TYPE=Release"
    /\ BuildTypeCount(cmake_params) = 0
    /\ spawns # <<>>

\* C6 as stated: configure invoked without the mode option assembles a
\* command with no build-type token.
C6_NoModeNoBuildTypeToken ==
    (subcmd = "config" /\ Assembled /\ modeOpt = None)
    => BuildTypeCount(command) = 0

\* C6 as amended: invoked without the mode option, configure of ecw.py uses
\* its default mode, debug, and synthesizes exactly one build-type token,
\* "-DCMAKE_BUILD_TYPE=Debug", as sixth token of the command; configure of
\* main.py, which has no mode option, synthesizes none.
C6_NoModeMeansDebug ==
    (subcmd = "config" /\ Assembled /\ modeOpt = None)
    => IF prog = "ecw"
       THEN /\ Len(command) >= 6
            /\ command[6] = "-DCMAKE_BUILD_TYPE=Debug"
            /\ BuildTypeCount(Synthesized) = 1
       ELSE BuildTypeCount(Synthesized) = 0

C6_Witness ==
    /\ prog = "ecw" /\ subcmd = "config" /\ modeOpt = None
    /\ cmake_params = <<>>
    /\ command = <<"cmake", "-S", "/repo", "-B", "/repo/build",
                   "-DCMAKE_BUILD_TYPE=Debug">>
    /\ spawns # <<>>

\* C7: the command of configure is cmake -S source -B build, then the
\* build-type token if there is a mode, then the export token if export-cc is
\* set, then the passthrough parameters, unmodified and in order, as suffix.
C7_ConfigCommandLayout ==
    (subcmd = "config" /\ Assembled)
    => LET n == Len(command)
           k == Len(cmake_params)
           head == <<"cmake", "-S", PathStr(source_dir), "-B", PathStr(build_dir)>>
           modeTok == IF prog = "ecw" /\ mode \in BuildMode
                      THEN <<"-DCMAKE_BUILD_TYPE=" \o ModeValue[mode]>> ELSE <<>>
           exportTok == IF prog = "ecw" /\ export_cc
                        THEN <<"-DCMAKE_EXPORT_COMPILE_COMMANDS=1">> ELSE <<>>
       IN /\ n = 5 + Len(modeTok) + Len(exportTok) + k
          /\ SubSeq(command, 1, n - k) = head \o modeTok \o exportTok
          /\ SubSeq(command, n - k + 1, n) = cmake_params

C7_Witness ==
    /\ prog = "ecw" /\ subcmd = "config"
    /\ export_cc /\ mode = release_with_debug
    /\ cmake_params = <<"-GNinja", "-DCMAKE_BUILD_TYPE=Release">>
    /\ Len(command) = 9
    /\ spawns # <<>>

\* C8: the command of build is exactly cmake --build B for the target "all"
\* and exactly cmake --build B -t X for any other target X, in both entry
\* points.
C8_BuildCommand ==
    (subcmd = "build" /\ Assembled)
    => /\ SubSeq(command, 1, 3) = <<"cmake", "--build", PathStr(build_dir)>>
       /\ target = "all" => Len(command) = 3
       /\ target # "all" =>
            /\ Len(command) = 5
            /\ command[4] = "-t"
            /\ command[5] = target

C8_Witness ==
    /\ subcmd = "build" /\ prog = "ecw"
    /\ command = <<"cmake", "--build", "/repo/build", "-t", "mytarget">>
    /\ spawns # <<>>

C8_WitnessAll ==
    /\ subcmd = "build"
    /\ target = "all"
    /\ command = <<"cmake", "--build", "/repo/build">>
    /\ spawns # <<>>

\* C9: a child is spawned only after the echo of its command: one line,
\* "> " followed by the tokens joined by single spaces, whose tokens are those
\* of the command the child is run with.
C9_EchoBeforeSpawn ==
    /\ Len(spawns) <= Len(stdout)
    /\ \A i \in 1..Len(spawns) :
        /\ stdout[i] = "> " \o SpaceJoined(spawns[i].argv)
        /\ spawns[i].argv = command
    /\ pc = "spawn" => Len(stdout) = 1 /\ stdout[1] = "> " \o SpaceJoined(command)

C9_Witness ==
    /\ Len(spawns) = 1
    /\ prog = "ecw"
    /\ stdout = <<"> cmake --build /repo/build -t mytarget">>
    /\ spawns[1].argv = <<"cmake", "--build", "/repo/build", "-t", "mytarget">>

\* C10: configure never deletes the source root or a directory containing
\* it; the source root still exists when the invocation is over.
C10_SourceRootSurvives ==
    (subcmd = "config" /\ isdir(fs0, source_dir))
    => /\ \A p \in removed : ~Contains(p, source_dir)
       /\ isdir(fs, source_dir)

====
